---- MODULE Spec2Model ----
(***************************************************************************)
(* A model of melwalletd's wallet custody core:                            *)
(*   - the secret vault (AppState::unlock_signer / get_signer, the lock    *)
(*     and export handlers of main.rs),                                    *)
(*   - the wallet store (MultiWallet: valid_wallet_name, get_wallet,       *)
(*     create_wallet with its write-temp-then-rename file write).          *)
(*   - the reconciliation engine (confirm_task and confirm_one),           *)
(*   - the request layer (prepare_tx, send_tx, AppState::create_wallet).   *)
(* VaultSpec exercises the vault, StoreSpec the store, GetSpec concurrent  *)
(* lookups, CreateSpec and AppCreateSpec concurrent creates, ListSpec the  *)
(* listing of a directory others write to, ReconSpec, ReconFairSpec and    *)
(* ScanSpec the engine, SignSpec the request layer; each leaves the other  *)
(* components' variables alone, as the code does.                          *)
(***************************************************************************)
EXTENDS Naturals, Integers, Sequences, FiniteSets, TLC

VARIABLES
    secrets,            \* SecretStore: name -> persisted SecretRecord
    unlocked_signers,   \* AppState.unlocked_signers: name -> Option<signer>
    unlockedSince,      \* history: an unlock(name) succeeded since the last lock(name) / start
    openedWith,         \* history: the password argument of the last successful unlock(name)
    vop,                \* the last completed vault call and its outcome
    files,              \* wallet directory: name -> contents of <name>.json
    tmps,               \* temp files of atomic writes: the latest one of each task
    cache,              \* MultiWallet.cache: name -> Option<in-memory WalletData>
    tasks,              \* create_wallet calls in progress: position and arguments
    sop,                \* the last completed store call and its outcome
    overlapped,         \* history: names whose create_wallet ran while another one was under way
    arcs,               \* the AcidJson allocations of the process: id -> in-memory WalletData
    entries,            \* MultiWallet.cache as handles: name -> Option<id in arcs>
    getters,            \* get_wallet calls in progress and the handle each caller holds
    opens,              \* history: how often AcidJson::open read an existing <name>.json
    sent,               \* confirm_task's set of retransmitted transaction hashes
    steps,              \* the spawned confirm_one tasks: position and locals
    sched,              \* the confirm_task loop: running or dead, and its last tick
    ledger,             \* the remote node: height of the transaction, spent outputs, health
    hist,               \* history: what confirm_one has retransmitted, queried and inserted
    dirReadable,        \* whether read_dir on the wallet directory succeeds
    returned,           \* history: the keys AppState::create_wallet has returned, per call
    foreign             \* the files in the wallet directory that the daemon has not written

vaultVars == <<secrets, unlocked_signers, unlockedSince, openedWith, vop>>
storeVars == <<files, tmps, cache, tasks, sop, overlapped>>
getVars == <<arcs, entries, getters, opens>>
reconVars == <<sent, steps, sched, ledger, hist, dirReadable>>
appVars == <<returned, foreign>>
vars == <<secrets, unlocked_signers, unlockedSince, openedWith, vop, files, tmps, cache, tasks, sop,
          overlapped, arcs, entries, getters, opens, sent, steps, sched, ledger, hist, dirReadable,
          returned, foreign>>

----------------------------------------------------------------------------
(* Option<T> *)
None == [some |-> FALSE]
Some(x) == [some |-> TRUE, val |-> x]

(* Wallet names are strings, modelled as sequences of characters. *)
EmptyName == << >>
GoodName == <<"w", "_", "1">>
DashName == <<"a", "-", "b">>

Names == {EmptyName, GoodName, DashName}

----------------------------------------------------------------------------
(* Key material.  An Ed25519SK is the secret seed followed by the public  *)
(* key derived from it; a byte is a number in 0..255.                     *)
SeedLen == 1
ByteVals == {0, 181}

RECURSIVE SeqsOfLen(_, _)
SeqsOfLen(S, n) ==
    IF n = 0 THEN {<< >>}
    ELSE {<<x>> \o s : x \in S, s \in SeqsOfLen(S, n - 1)}

Seeds == SeqsOfLen(ByteVals, SeedLen)

(* ed25519 public key of a seed: a fixed injective function of the seed. *)
to_public(seed) == [i \in 1..Len(seed) |-> 255 - seed[i]]

(* main.rs:273-277: vv[0..32] = secret, vv[32..] = public *)
Ed25519SK(seed) == seed \o to_public(seed)

(* tmelcrypt::ed25519_keygen().1, for every seed the generator may draw *)
ed25519_keygen == {Ed25519SK(s) : s \in Seeds}

Passwords == {"", "hunter2"}
PwdOpts == {None} \cup {Some(p) : p \in Passwords}

----------------------------------------------------------------------------
(* base32::encode(Alphabet::Crockford, bytes): the bits of the bytes, most *)
(* significant first, cut into groups of 5 (the last group padded with 0   *)
(* bits), each group a character of the Crockford alphabet.                *)
Crockford ==
    <<"0", "1", "2", "3", "4", "5", "6", "7", "8", "9", "A", "B", "C", "D", "E", "F",
      "G", "H", "J", "K", "M", "N", "P", "Q", "R", "S", "T", "V", "W", "X", "Y", "Z">>

Pow2(n) == IF n = 0 THEN 1 ELSE IF n = 1 THEN 2 ELSE IF n = 2 THEN 4 ELSE IF n = 3 THEN 8
           ELSE IF n = 4 THEN 16 ELSE IF n = 5 THEN 32 ELSE IF n = 6 THEN 64 ELSE 128

BitAt(bytes, i) ==
    IF i > 8 * Len(bytes) THEN 0
    ELSE (bytes[((i - 1) \div 8) + 1] \div Pow2(7 - ((i - 1) % 8))) % 2

Group5(bytes, j) ==
    BitAt(bytes, 5 * j - 4) * 16 + BitAt(bytes, 5 * j - 3) * 8 + BitAt(bytes, 5 * j - 2) * 4
        + BitAt(bytes, 5 * j - 1) * 2 + BitAt(bytes, 5 * j)

base32_encode(bytes) ==
    [j \in 1..((8 * Len(bytes) + 4) \div 5) |-> Crockford[Group5(bytes, j) + 1]]

----------------------------------------------------------------------------
(* SecretRecord variants (PersistentSecret).  An EncryptedSK is opened by  *)
(* exactly the password it was sealed under.                               *)
NoSecret == [kind |-> "NoSecret"]
Plaintext(sk) == [kind |-> "Plaintext", sk |-> sk]
EncryptedSK_new(sk, pwd) == [under |-> pwd, sealed |-> sk]
PasswordEncrypted(enc) == [kind |-> "PasswordEncrypted", enc |-> enc]

EncryptedSK_decrypt(enc, pwd) ==
    IF pwd = enc.under THEN Some(enc.sealed) ELSE None

(* SecretStore::load *)
SecretStore_load(name) ==
    IF secrets[name] = NoSecret THEN None ELSE Some(secrets[name])

----------------------------------------------------------------------------
(* base32::decode(Alphabet::Crockford, text): None on a character outside  *)
(* the alphabet, else the bits of the characters regrouped into whole      *)
(* bytes (left-over bits dropped).                                         *)
CrockValue(c) == (CHOOSE i \in 1..Len(Crockford) : Crockford[i] = c) - 1

DecBit(text, i) ==
    (CrockValue(text[((i - 1) \div 5) + 1]) \div Pow2(4 - ((i - 1) % 5))) % 2

DecByte(text, k) ==
    DecBit(text, 8 * k - 7) * 128 + DecBit(text, 8 * k - 6) * 64 + DecBit(text, 8 * k - 5) * 32
        + DecBit(text, 8 * k - 4) * 16 + DecBit(text, 8 * k - 3) * 8 + DecBit(text, 8 * k - 2) * 4
        + DecBit(text, 8 * k - 1) * 2 + DecBit(text, 8 * k)

base32_decode(text) ==
    IF \E i \in 1..Len(text) : \A j \in 1..Len(Crockford) : Crockford[j] # text[i]
    THEN None
    ELSE Some([k \in 1..((5 * Len(text)) \div 8) |-> DecByte(text, k)])

(* main.rs:268-281: the key of a create request, from the "secret" field   *)
(* when given (decoded, of seed length, public half derived), else fresh.  *)
(* The set of keys the request may end with; empty when it is rejected.    *)
request_sk(secret) ==
    IF secret.some
    THEN LET dec == base32_decode(secret.val) IN
         IF dec.some /\ Len(dec.val) = SeedLen THEN {Ed25519SK(dec.val)} ELSE {}
    ELSE ed25519_keygen

(* The "secret" fields tried: none, every exported seed, a wrong length, a bad character. *)
SecretInputs ==
    {None} \cup {Some(base32_encode(s)) : s \in Seeds} \cup {Some(<<"0">>), Some(<<"U", "!">>)}

(* request_sk, tabulated over the inputs tried *)
RequestKeys == [secret \in SecretInputs |-> request_sk(secret)]

----------------------------------------------------------------------------
(* MultiWallet: names *)
AsciiAlnum ==
    {"0", "1", "2", "3", "4", "5", "6", "7", "8", "9",
     "A", "B", "C", "D", "E", "F", "G", "H", "I", "J", "K", "L", "M",
     "N", "O", "P", "Q", "R", "S", "T", "U", "V", "W", "X", "Y", "Z",
     "a", "b", "c", "d", "e", "f", "g", "h", "i", "j", "k", "l", "m",
     "n", "o", "p", "q", "r", "s", "t", "u", "v", "w", "x", "y", "z"}

is_ascii_alphanumeric(x) == x \in AsciiAlnum

(* a validity test that accepts a name as soon as one character is good *)
valid_wallet_name_any(name) ==
    \E i \in 1..Len(name) : is_ascii_alphanumeric(name[i]) \/ name[i] = "_"

valid_wallet_name(name) ==
    \A i \in 1..Len(name) : is_ascii_alphanumeric(name[i]) \/ name[i] = "_"

----------------------------------------------------------------------------
(* SecretVault operations.  Every vault call leaves its description in vop. *)

VaultCall(op, name, pwd, ret, out) ==
    [op |-> op, name |-> name, pwd |-> pwd, ret |-> ret, out |-> out]

(* a get_signer that falls back to a key stored in the clear *)
get_signer_fallback(name) ==
    IF unlocked_signers[name].some THEN unlocked_signers[name]
    ELSE IF secrets[name].kind = "Plaintext" THEN Some(secrets[name].sk)
    ELSE None

(* AppState::get_signer *)
get_signer(name) == unlocked_signers[name]

(* an unlock_signer that installs the sealed key before it checks the password *)
unlock_signer_install_first(name, pwd) ==
    LET enc == SecretStore_load(name)
        failed == [ret |-> None, signers |-> unlocked_signers]
        install(sk) == [ret |-> Some("unit"),
                        signers |-> [unlocked_signers EXCEPT ![name] = Some(sk)]]
    IN  IF ~enc.some THEN failed
        ELSE IF enc.val.kind = "Plaintext" THEN install(enc.val.sk)
        ELSE LET decrypted == IF pwd.some THEN EncryptedSK_decrypt(enc.val.enc, pwd.val)
                              ELSE None IN
             IF ~decrypted.some
             THEN [ret |-> None, signers |-> install(enc.val.enc.sealed).signers]
             ELSE install(decrypted.val)

(* an unlock_signer that takes a missing password for the empty one *)
unlock_signer_default_pwd(name, pwd) ==
    LET enc == SecretStore_load(name)
        failed == [ret |-> None, signers |-> unlocked_signers]
        install(sk) == [ret |-> Some("unit"),
                        signers |-> [unlocked_signers EXCEPT ![name] = Some(sk)]]
    IN  IF ~enc.some THEN failed
        ELSE IF enc.val.kind = "Plaintext" THEN install(enc.val.sk)
        ELSE LET decrypted == EncryptedSK_decrypt(enc.val.enc,
                                                  IF pwd.some THEN pwd.val ELSE "") IN
             IF ~decrypted.some THEN failed ELSE install(decrypted.val)

(* an unlock_signer that locks the wallet again when unlocking fails *)
unlock_signer_relock(name, pwd) ==
    LET enc == SecretStore_load(name)
        failed == [ret |-> None, signers |-> [unlocked_signers EXCEPT ![name] = None]]
        install(sk) == [ret |-> Some("unit"),
                        signers |-> [unlocked_signers EXCEPT ![name] = Some(sk)]]
    IN  IF ~enc.some THEN failed
        ELSE IF enc.val.kind = "Plaintext" THEN install(enc.val.sk)
        ELSE IF ~pwd.some THEN failed
        ELSE LET decrypted == EncryptedSK_decrypt(enc.val.enc, pwd.val) IN
             IF ~decrypted.some THEN failed ELSE install(decrypted.val)

(* AppState::unlock_signer: the Option<()> it returns and the signer map it leaves *)
unlock_signer(name, pwd) ==
    LET enc == SecretStore_load(name)
        failed == [ret |-> None, signers |-> unlocked_signers]
        install(sk) == [ret |-> Some("unit"),
                        signers |-> [unlocked_signers EXCEPT ![name] = Some(sk)]]
    IN  IF ~enc.some THEN failed
        ELSE IF enc.val.kind = "Plaintext" THEN install(enc.val.sk)
        ELSE IF ~pwd.some THEN failed
        ELSE LET decrypted == EncryptedSK_decrypt(enc.val.enc, pwd.val) IN
             IF ~decrypted.some THEN failed ELSE install(decrypted.val)

(* the unlock handler: a None from the state becomes 403 "incorrect password" *)
unlock_wallet(name, pwd) ==
    LET r == unlock_signer(name, pwd) IN
    /\ unlocked_signers' = r.signers
    /\ unlockedSince' = IF r.ret.some THEN [unlockedSince EXCEPT ![name] = TRUE]
                        ELSE unlockedSince
    /\ openedWith' = IF r.ret.some THEN [openedWith EXCEPT ![name] = Some(pwd)]
                     ELSE openedWith
    /\ vop' = VaultCall("unlock", name, pwd, IF r.ret.some THEN "Ok" ELSE "Forbidden", None)
    /\ UNCHANGED <<secrets, storeVars, getVars, reconVars, appVars>>

(* what the caller of the unlock handler gets: 200 with an empty body, or   *)
(* .context("incorrect password").map_err(to_forbidden) on every None      *)
unlock_wallet_response(name, pwd) ==
    IF unlock_signer(name, pwd).ret.some THEN [status |-> 200, message |-> ""]
    ELSE [status |-> 403, message |-> "incorrect password"]

(* AppState::lock: drops the signer of the name, if any *)
lock(name) == [unlocked_signers EXCEPT ![name] = None]

(* the lock handler *)
lock_wallet(name) ==
    /\ unlocked_signers' = lock(name)
    /\ unlockedSince' = [unlockedSince EXCEPT ![name] = FALSE]
    /\ vop' = VaultCall("lock", name, None, "Ok", None)
    /\ UNCHANGED <<secrets, openedWith, storeVars, getVars, reconVars, appVars>>

(* a caller asking for the signer (prepare_tx without a signing key) *)
signer_request(name) ==
    /\ vop' = VaultCall("signer", name, None,
                        IF get_signer(name).some THEN "Ok" ELSE "Forbidden", get_signer(name))
    /\ UNCHANGED <<secrets, unlocked_signers, unlockedSince, openedWith, storeVars, getVars, reconVars, appVars>>

(* AppState::get_secret_key: the key, under the authentication of unlock *)
get_secret_key(name, pwd) ==
    LET enc == SecretStore_load(name) IN
    IF ~enc.some THEN None
    ELSE IF enc.val.kind = "Plaintext" THEN Some(enc.val.sk)
    ELSE IF ~pwd.some THEN None
    ELSE EncryptedSK_decrypt(enc.val.enc, pwd.val)

(* the export handler: 403 on None, else the base32 text of the first half of the key *)
export_sk_from_wallet(name, pwd) ==
    LET secret == get_secret_key(name, pwd) IN
    /\ vop' = IF secret.some
              THEN VaultCall("export", name, pwd, "Ok",
                             Some(base32_encode(SubSeq(secret.val, 1, SeedLen))))
              ELSE VaultCall("export", name, pwd, "Forbidden", None)
    /\ UNCHANGED <<secrets, unlocked_signers, unlockedSince, openedWith, storeVars, getVars, reconVars, appVars>>

(* SecretStore::store on wallet creation: in the clear without a password, *)
(* sealed under the password when one is given.                            *)
SecretStore_store(name, sk, pwd) ==
    [secrets EXCEPT ![name] = IF pwd.some THEN PasswordEncrypted(EncryptedSK_new(sk, pwd.val))
                              ELSE Plaintext(sk)]

(* the vault side of the create handler, for a name that has no wallet yet *)
create_secret(name, secret, pwd) ==
    /\ valid_wallet_name(name)
    /\ secrets[name] = NoSecret
    /\ \E sk \in RequestKeys[secret] :
          secrets' = SecretStore_store(name, sk, pwd)
    /\ vop' = VaultCall("create", name, pwd, "Ok", None)
    /\ UNCHANGED <<unlocked_signers, unlockedSince, openedWith, storeVars, getVars, reconVars, appVars>>

(* a create request whose "secret" field does not decode to a key is refused *)
create_rejected(name, secret, pwd) ==
    /\ RequestKeys[secret] = {}
    /\ vop' = VaultCall("create", name, pwd, "BadSecret", None)
    /\ UNCHANGED <<secrets, unlocked_signers, unlockedSince, openedWith, storeVars, getVars, reconVars, appVars>>

(* AppState::new after a process restart: no signer is unlocked *)
AppState_new ==
    /\ unlocked_signers' = [n \in Names |-> None]
    /\ unlockedSince' = [n \in Names |-> FALSE]
    /\ vop' = VaultCall("start", EmptyName, None, "Ok", None)
    /\ UNCHANGED <<secrets, openedWith, storeVars, getVars, reconVars, appVars>>

VaultInit ==
    /\ secrets = [n \in Names |-> NoSecret]
    /\ unlocked_signers = [n \in Names |-> None]
    /\ unlockedSince = [n \in Names |-> FALSE]
    /\ openedWith = [n \in Names |-> None]
    /\ vop = VaultCall("start", EmptyName, None, "Ok", None)

VaultNext ==
    \/ \E n \in Names, p \in PwdOpts : unlock_wallet(n, p)
    \/ \E n \in Names : lock_wallet(n)
    \/ \E n \in Names : signer_request(n)
    \/ \E n \in Names, p \in PwdOpts : export_sk_from_wallet(n, p)
    \/ \E n \in Names, s \in SecretInputs, p \in PwdOpts : create_secret(n, s, p)
    \/ \E n \in Names, s \in SecretInputs, p \in PwdOpts : create_rejected(n, s, p)
    \/ AppState_new

----------------------------------------------------------------------------
(* WalletStore (MultiWallet) *)

NChunks == 2

(* the callers that may have a create_wallet under way: one where creates  *)
(* run one after the other, two where they run concurrently                *)
Tasks == {1}
Creators == {1, 2}
Txs == {"tx1"}
Covenants == {"covA", "covB"}

(* WalletData::new(covenant): an empty record *)
WalletData_new(covenant) ==
    [my_covenant |-> covenant, unspent_coins |-> {}, tx_in_progress |-> {}]

(* A file holds the first len of the NChunks chunks of a serialized record. *)
NoFile == [kind |-> "NoFile"]
FileOf(data, len) == [kind |-> "File", data |-> data, len |-> len]
(* A temp file of an atomic write: only how much of it is written is kept; *)
(* what is written is the record of the task that owns it (tasks[t].wdata) *)
TmpOf(len) == [kind |-> "Tmp", len |-> len]
Complete(file) == file.kind = "File" /\ file.len = NChunks

IdleTask == [pc |-> "idle"]

StoreCall(op, name, ret, data, opened) ==
    [seq |-> 1 - sop.seq, op |-> op, name |-> name, ret |-> ret, data |-> data,
     opened |-> opened,
     afterCreate |-> op = "get" /\ sop.op = "create" /\ sop.ret = "Ok" /\ sop.name = name]

(* AcidJson::open(<name>.json): the record, or an error when the file is   *)
(* missing or does not parse                                               *)
AcidJson_open(name) ==
    IF Complete(files[name]) THEN Some(files[name].data) ELSE None

(* MultiWallet::get_wallet: the handle returned (None: an error), the      *)
(* cache it leaves, and whether the file was opened                        *)
get_wallet(name) ==
    IF cache[name].some
    THEN [ret |-> cache[name], cache |-> cache, opened |-> FALSE]
    ELSE LET loaded == AcidJson_open(name) IN
         IF loaded.some
         THEN [ret |-> loaded, cache |-> [cache EXCEPT ![name] = loaded], opened |-> TRUE]
         ELSE [ret |-> None, cache |-> cache, opened |-> TRUE]

(* a caller of get_wallet *)
store_get(name) ==
    LET r == get_wallet(name) IN
    /\ cache' = r.cache
    /\ sop' = StoreCall("get", name, IF r.ret.some THEN "Ok" ELSE "IoFailure", r.ret, r.opened)
    /\ UNCHANGED <<files, tmps, tasks, overlapped, vaultVars, getVars, reconVars, appVars>>

(* the names other callers than t are writing a record for *)
UnderWay(t) == {tasks[u].name : u \in {v \in Creators \ {t} : tasks[v].pc = "writing"}}

(* MultiWallet::create_wallet, first step: the name check, then            *)
(* AtomicFile::write opens its temp file                                   *)
create_wallet_begin(t, name, covenant) ==
    /\ tasks[t].pc = "idle"
    /\ IF ~valid_wallet_name(name)
       THEN /\ sop' = StoreCall("create", name, "InvalidName", None, FALSE)
            /\ UNCHANGED <<files, tmps, tasks>>
       ELSE /\ tasks' = [tasks EXCEPT ![t] = [pc |-> "writing", name |-> name,
                                              wdata |-> WalletData_new(covenant)]]
            /\ tmps' = [tmps EXCEPT ![t] = TmpOf(0)]
            /\ UNCHANGED <<files, sop>>
    /\ overlapped' = IF valid_wallet_name(name) /\ UnderWay(t) # {}
                     THEN overlapped \cup {name} \cup UnderWay(t) ELSE overlapped
    /\ UNCHANGED <<cache, vaultVars, getVars, reconVars, appVars>>

(* a write that puts the chunk into <name>.json itself, not the temp file *)
create_wallet_write_inplace(t) ==
    /\ tasks[t].pc = "writing"
    /\ tmps[t].len < NChunks
    /\ tmps' = [tmps EXCEPT ![t].len = @ + 1]
    /\ files' = [files EXCEPT ![tasks[t].name] = FileOf(tasks[t].wdata, tmps[t].len + 1)]
    /\ UNCHANGED <<tasks, cache, sop, overlapped, vaultVars, getVars, reconVars, appVars>>

(* file.write_all: one more chunk of the serialized record reaches the temp file *)
create_wallet_write(t) ==
    /\ tasks[t].pc = "writing"
    /\ tmps[t].len < NChunks
    /\ tmps' = [tmps EXCEPT ![t].len = @ + 1]
    /\ UNCHANGED <<files, tasks, cache, sop, overlapped, vaultVars, getVars, reconVars, appVars>>

(* AtomicFile::write, last step: the written temp file is renamed onto <name>.json *)
create_wallet_commit(t) ==
    /\ tasks[t].pc = "writing"
    /\ tmps[t].len = NChunks
    /\ files' = [files EXCEPT ![tasks[t].name] = FileOf(tasks[t].wdata, tmps[t].len)]
    /\ tmps' = [tmps EXCEPT ![t] = NoFile]
    /\ tasks' = [tasks EXCEPT ![t] = IdleTask]
    /\ sop' = StoreCall("create", tasks[t].name, "Ok", None, TRUE)
    /\ UNCHANGED <<cache, overlapped, vaultVars, getVars, reconVars, appVars>>

(* the write fails (disk full, permissions): the temp file is dropped and  *)
(* the error returned                                                      *)
create_wallet_fail(t) ==
    /\ tasks[t].pc = "writing"
    /\ tmps' = [tmps EXCEPT ![t] = NoFile]
    /\ tasks' = [tasks EXCEPT ![t] = IdleTask]
    /\ sop' = StoreCall("create", tasks[t].name, "IoFailure", None, TRUE)
    /\ UNCHANGED <<files, cache, overlapped, vaultVars, getVars, reconVars, appVars>>

(* WalletData::commit_sent through the handle's write guard: the           *)
(* transaction joins the in-flight set                                     *)
commit_sent(wdata, tx) == [wdata EXCEPT !.tx_in_progress = @ \cup {tx}]

(* a handler that marks the transaction as sent before it is submitted *)
send_tx_commit_first(name, tx, answer) ==
    LET r == get_wallet(name) IN
    /\ IF ~r.ret.some
       THEN /\ cache' = r.cache
            /\ sop' = StoreCall("send_tx", name, "BadRequest", None, r.opened)
            /\ UNCHANGED files
       ELSE IF answer = "snapshot_failed"
       THEN /\ cache' = r.cache
            /\ sop' = StoreCall("send_tx", name, "UpstreamError", None, r.opened)
            /\ UNCHANGED files
       ELSE LET wdata == commit_sent(r.ret.val, tx) IN
            /\ cache' = [r.cache EXCEPT ![name] = Some(wdata)]
            /\ files' = [files EXCEPT ![name] = FileOf(wdata, NChunks)]
            /\ sop' = IF answer = "accepted"
                      THEN StoreCall("send_tx", name, "Ok", Some(wdata), TRUE)
                      ELSE StoreCall("send_tx", name, "UpstreamError", None, TRUE)
    /\ UNCHANGED <<tmps, tasks, overlapped, vaultVars, getVars, reconVars, appVars>>

(* the send-tx handler; answer is what the remote node does with the call *)
send_tx(name, tx, answer) ==
    LET r == get_wallet(name) IN
    /\ IF ~r.ret.some
       THEN /\ cache' = r.cache
            /\ sop' = StoreCall("send_tx", name, "BadRequest", None, r.opened)
            /\ UNCHANGED files
       ELSE IF answer # "accepted"
       THEN /\ cache' = r.cache
            /\ sop' = StoreCall("send_tx", name, "UpstreamError", None, r.opened)
            /\ UNCHANGED files
       ELSE LET wdata == commit_sent(r.ret.val, tx) IN
            /\ cache' = [r.cache EXCEPT ![name] = Some(wdata)]
            /\ files' = [files EXCEPT ![name] = FileOf(wdata, NChunks)]
            /\ sop' = StoreCall("send_tx", name, "Ok", Some(wdata), TRUE)
    /\ UNCHANGED <<tmps, tasks, overlapped, vaultVars, getVars, reconVars, appVars>>

LedgerOutcomes == {"accepted", "snapshot_failed", "send_failed"}

(* the process dies and is started again: memory is lost, the directory stays *)
Crash ==
    /\ tasks' = [t \in Creators |-> IdleTask]
    /\ cache' = [n \in Names |-> None]
    /\ overlapped' = {}
    /\ sop' = StoreCall("start", EmptyName, "Ok", None, FALSE)
    /\ UNCHANGED <<files, tmps, vaultVars, getVars, reconVars, appVars>>

StoreInit ==
    /\ files = [n \in Names |-> NoFile]
    /\ tmps = [t \in Creators |-> NoFile]
    /\ cache = [n \in Names |-> None]
    /\ tasks = [t \in Creators |-> IdleTask]
    /\ overlapped = {}
    /\ sop = [seq |-> 0, op |-> "start", name |-> EmptyName, ret |-> "Ok", data |-> None,
              opened |-> FALSE, afterCreate |-> FALSE]

StoreNext ==
    \/ \E n \in Names : store_get(n)
    \/ \E t \in Tasks, n \in Names, c \in Covenants : create_wallet_begin(t, n, c)
    \/ \E t \in Tasks : create_wallet_write(t)
    \/ \E t \in Tasks : create_wallet_commit(t)
    \/ \E t \in Tasks : create_wallet_fail(t)
    \/ \E n \in Names, tx \in Txs, l \in LedgerOutcomes : send_tx(n, tx, l)
    \/ Crash

----------------------------------------------------------------------------
(* MultiWallet::get_wallet among concurrent callers.  An AcidJson is a     *)
(* shared pointer: arcs holds the in-memory records allocated so far, a    *)
(* handle is the index of one of them, and clones of a handle are equal.   *)
(* DashMap::entry keeps the entry of the name locked until                 *)
(* or_try_insert_with has returned.                                        *)

MaxArcs == 3
Getters == {1, 2}

IdleGetter == [pc |-> "idle"]

(* some caller is inside or_try_insert_with for the name *)
EntryLocked(name) ==
    \E u \in Getters : getters[u].pc = "vacant" /\ getters[u].name = name

(* an entry() that does not wait for the caller that holds the entry *)
get_wallet_entry_unlocked(t, name) ==
    /\ getters[t].pc = "idle"
    /\ getters' = [getters EXCEPT ![t] =
                      IF entries[name].some
                      THEN [pc |-> "holding", name |-> name, handle |-> entries[name].val]
                      ELSE [pc |-> "vacant", name |-> name]]
    /\ UNCHANGED <<arcs, entries, opens, storeVars, vaultVars, reconVars, appVars>>

(* self.cache.entry(name): waits for the entry, then holds it; an occupied *)
(* entry gives a clone of its handle at once                               *)
get_wallet_entry(t, name) ==
    /\ getters[t].pc = "idle"
    /\ ~EntryLocked(name)
    /\ getters' = [getters EXCEPT ![t] =
                      IF entries[name].some
                      THEN [pc |-> "holding", name |-> name, handle |-> entries[name].val]
                      ELSE [pc |-> "vacant", name |-> name]]
    /\ UNCHANGED <<arcs, entries, opens, storeVars, vaultVars, reconVars, appVars>>

(* or_try_insert_with(|| AcidJson::open(&fpath)) on a vacant entry: the    *)
(* file is read; a record becomes a new allocation, is inserted and a      *)
(* clone returned; an error is returned and nothing inserted               *)
get_wallet_insert(t) ==
    LET name == getters[t].name
        loaded == AcidJson_open(name) IN
    /\ getters[t].pc = "vacant"
    /\ Len(arcs) < MaxArcs
    /\ opens' = IF files[name] # NoFile THEN [opens EXCEPT ![name] = @ + 1] ELSE opens
    /\ IF loaded.some
       THEN /\ arcs' = Append(arcs, loaded.val)
            /\ entries' = [entries EXCEPT ![name] = Some(Len(arcs) + 1)]
            /\ getters' = [getters EXCEPT ![t] =
                              [pc |-> "holding", name |-> name, handle |-> Len(arcs) + 1]]
       ELSE /\ getters' = [getters EXCEPT ![t] = IdleGetter]
            /\ UNCHANGED <<arcs, entries>>
    /\ UNCHANGED <<storeVars, vaultVars, reconVars, appVars>>

(* wallet.read(): what a caller sees through its handle *)
handle_read(t) == arcs[getters[t].handle]

(* wallet.write() through a handle: the shared record is changed and, when *)
(* the guard is released, persisted                                        *)
handle_write(t, tx) ==
    LET h == getters[t].handle
        wdata == commit_sent(arcs[h], tx) IN
    /\ getters[t].pc = "holding"
    /\ arcs' = [arcs EXCEPT ![h] = wdata]
    /\ files' = [files EXCEPT ![getters[t].name] = FileOf(wdata, NChunks)]
    /\ UNCHANGED <<entries, getters, opens, tmps, cache, tasks, sop, overlapped,
                   vaultVars, reconVars, appVars>>

(* the caller is done with its handle *)
handle_drop(t) ==
    /\ getters[t].pc = "holding"
    /\ getters' = [getters EXCEPT ![t] = IdleGetter]
    /\ UNCHANGED <<arcs, entries, opens, storeVars, vaultVars, reconVars, appVars>>

GetInit ==
    /\ arcs = << >>
    /\ entries = [n \in Names |-> None]
    /\ getters = [t \in Getters |-> IdleGetter]
    /\ opens = [n \in Names |-> 0]

GetNext ==
    \/ \E t \in Getters, n \in Names : get_wallet_entry(t, n)
    \/ \E t \in Getters : get_wallet_insert(t)
    \/ \E t \in Getters, tx \in Txs : handle_write(t, tx)
    \/ \E t \in Getters : handle_drop(t)
    \/ \E t \in Tasks, n \in Names, c \in Covenants : create_wallet_begin(t, n, c)
    \/ \E t \in Tasks : create_wallet_write(t)
    \/ \E t \in Tasks : create_wallet_commit(t)

----------------------------------------------------------------------------
(* MultiWallet::list: the names of the directory entries that end in       *)
(* ".json", with every ".json" cut out, that are valid wallet names.       *)

Ext == <<".", "j", "s", "o", "n">>

(* the file of the SecretStore lies in the wallet directory (main.rs) *)
SecretsFile == <<".", "s", "e", "c", "r", "e", "t", "s">> \o Ext

(* the directory AtomicFile makes for the temp file of caller t *)
TmpDirName(t) ==
    <<".", "a", "t", "o", "m", "i", "c", "w", "r", "i", "t", "e">>
        \o <<IF t = 1 THEN "1" ELSE "2">>

(* files that a user or another program may put into the directory: a     *)
(* copy of a record file under a longer name, and a text file              *)
ForeignFiles == {GoodName \o Ext \o Ext, <<"n", "o", "t", "e", "s", ".", "t", "x", "t">>}

(* somebody else writes a file into the wallet directory *)
foreign_file(f) ==
    /\ f \notin foreign
    /\ foreign' = foreign \cup {f}
    /\ UNCHANGED <<returned, storeVars, vaultVars, getVars, reconVars>>

(* std::fs::read_dir(&self.dirname): the file names in the directory *)
read_dir ==
    {n \o Ext : n \in {m \in Names : files[m] # NoFile}}
        \cup {SecretsFile}
        \cup {TmpDirName(t) : t \in {u \in Creators : tmps[u] # NoFile}}
        \cup foreign

ends_with(v, suffix) ==
    Len(v) >= Len(suffix) /\ SubSeq(v, Len(v) - Len(suffix) + 1, Len(v)) = suffix

RECURSIVE replace_from(_, _, _)
replace_from(v, i, pat) ==
    IF i > Len(v) THEN << >>
    ELSE IF i + Len(pat) - 1 <= Len(v) /\ SubSeq(v, i, i + Len(pat) - 1) = pat
    THEN replace_from(v, i + Len(pat), pat)
    ELSE <<v[i]>> \o replace_from(v, i + 1, pat)

(* v.replace(pat, "") *)
replace(v, pat) == replace_from(v, 1, pat)

(* a list that keeps every ".json" entry, whatever its name *)
list_any_json ==
    {replace(v, Ext) : v \in {w \in read_dir : ends_with(w, Ext)}}

list ==
    {n \in {replace(v, Ext) : v \in {w \in read_dir : ends_with(w, Ext)}} :
        valid_wallet_name(n)}

(* how often the iterator of list yields the name *)
list_count(name) ==
    IF valid_wallet_name(name)
    THEN Cardinality({v \in read_dir : ends_with(v, Ext) /\ replace(v, Ext) = name})
    ELSE 0

(* a caller of list (the list handler, create's existence check) *)
store_list ==
    /\ dirReadable
    /\ sop' = StoreCall("list", EmptyName, "Ok", Some(list), TRUE)
    /\ UNCHANGED <<files, tmps, cache, tasks, overlapped, vaultVars, getVars, reconVars, appVars>>

(* concurrent creates, with lookups and listings in between *)
CreateNext ==
    \/ \E t \in Creators, n \in Names, c \in Covenants : create_wallet_begin(t, n, c)
    \/ \E t \in Creators : create_wallet_write(t)
    \/ \E t \in Creators : create_wallet_commit(t)
    \/ \E t \in Creators : create_wallet_fail(t)
    \/ \E n \in Names : store_get(n)
    \/ store_list

(* creates, lookups and listings in a directory others write to as well *)
ListNext ==
    \/ \E t \in Tasks, n \in Names, c \in Covenants : create_wallet_begin(t, n, c)
    \/ \E t \in Tasks : create_wallet_write(t)
    \/ \E t \in Tasks : create_wallet_commit(t)
    \/ \E f \in ForeignFiles : foreign_file(f)
    \/ \E n \in Names : store_get(n)
    \/ store_list

----------------------------------------------------------------------------
(* The reconciliation engine: confirm_task and the confirm_one tasks it    *)
(* spawns.                                                                 *)

MaxSteps == 2
Steps == 1..MaxSteps

(* the block height at which the remote node confirms *)
Heights == {7}

(* Covenant::hash and Transaction::hash_nosigs: injective *)
Covenant_hash(covenant) == <<"covhash", covenant>>
hash_nosigs(tx) == <<"txhash", tx>>

(* the outputs of the transactions: the covhash each one pays *)
TxOutputs ==
    [tx \in Txs |-> <<Covenant_hash("covA"), Covenant_hash("covB"), Covenant_hash("covA")>>]

(* Transaction::output_coinid(index) *)
output_coinid(tx, index) == [txhash |-> hash_nosigs(tx), index |-> index]

(* WalletData::insert_coin: the coin joins the unspent set at its height,  *)
(* and the transaction that made it is no longer in flight                 *)
insert_coin(wdata, coin_id, cdh) ==
    [wdata EXCEPT
        !.unspent_coins = {c \in @ : c.coin # coin_id} \cup {[coin |-> coin_id, height |-> cdh.height]},
        !.tx_in_progress = {tx \in @ : hash_nosigs(tx) # coin_id.txhash}]

(* the remote node: whether its calls may still fail, and the height at    *)
(* which the transaction was included (0: not yet)                         *)
ledger_confirm(h) ==
    /\ ledger.height = 0
    /\ ledger' = [ledger EXCEPT !.height = h]
    /\ UNCHANGED <<sent, steps, sched, hist, dirReadable, storeVars, vaultVars, getVars, appVars>>

(* from here on the node reports the outputs confirmed and never fails *)
ledger_settle ==
    /\ ledger.height > 0
    /\ ~ledger.stable
    /\ ledger' = [ledger EXCEPT !.stable = TRUE]
    /\ UNCHANGED <<sent, steps, sched, hist, dirReadable, storeVars, vaultVars, getVars, appVars>>

(* what a remote call can do: answer, or fail while the node is not stable *)
CallOutcomes == IF ledger.stable THEN {"ok"} ELSE {"ok", "failed"}

(* the indexes of the outputs of the transactions *)
OutputIndexes == UNION {0..(Len(TxOutputs[tx]) - 1) : tx \in Txs}

(* an output of the included transaction is spent: it leaves the coin set *)
ledger_spend(index) ==
    /\ ledger.height > 0
    /\ ~ledger.stable
    /\ index \notin ledger.gone
    /\ ledger' = [ledger EXCEPT !.gone = @ \cup {index}]
    /\ UNCHANGED <<sent, steps, sched, hist, dirReadable, storeVars, vaultVars, getVars, appVars>>

(* snapshot.get_coin(coin_id) on a snapshot taken at a given state of the  *)
(* node: the coin and its height when the transaction is included and the  *)
(* output not spent, else None                                             *)
get_coin(snapshot, coin_id) ==
    IF snapshot.height > 0 /\ coin_id.index \notin snapshot.gone
    THEN Some([height |-> snapshot.height]) ELSE None

(* the administrator changes the permissions of the wallet directory *)
chmod_dir ==
    /\ dirReadable' = ~dirReadable
    /\ UNCHANGED <<sent, steps, sched, ledger, hist, storeVars, vaultVars, getVars, appVars>>

(* a file in the directory that is no wallet record: it does not parse *)
JunkFile == FileOf(WalletData_new("junk"), 0)

FreeStep == [pc |-> "free"]
(* a task that has ended: with Ok, with Ok after a logged retransmission   *)
(* error ("Logged"), or with Err; changed: its writes have changed the     *)
(* wallet record                                                           *)
DoneStep(ret, changed) == [pc |-> "done", ret |-> ret, changed |-> changed]
SlotFree(s) == steps[s].pc \in {"free", "done"}

TickRecord(last) == [running |-> last # "panicked", last |-> last]

(* a loop body that waits for the step it has spawned before the next tick *)
confirm_task_tick_joined(s) ==
    /\ sched.running
    /\ SlotFree(s)
    /\ \A u \in Steps : SlotFree(u)
    /\ IF ~dirReadable
       THEN /\ sched' = TickRecord("panicked")
            /\ UNCHANGED <<steps, cache>>
       ELSE IF list = {}
       THEN /\ sched' = TickRecord("no_wallets")
            /\ UNCHANGED <<steps, cache>>
       ELSE \E wallet_name \in list :
               LET wallet == get_wallet(wallet_name) IN
               /\ cache' = wallet.cache
               /\ IF ~wallet.ret.some
                  THEN /\ sched' = TickRecord("load_failed")
                       /\ UNCHANGED steps
                  ELSE /\ sched' = TickRecord("spawned")
                       /\ steps' = [steps EXCEPT ![s] = [pc |-> "spawned", wallet |-> wallet_name]]
    /\ UNCHANGED <<sent, ledger, hist, dirReadable, files, tmps, tasks, sop, overlapped,
                   vaultVars, getVars, appVars>>

(* one pass of the loop of confirm_task, after the pacer has fired: list   *)
(* (which panics when the directory cannot be read), sample a wallet, load *)
(* it, spawn confirm_one for it detached; s is the slot of the new task    *)
confirm_task_tick(s) ==
    /\ sched.running
    /\ SlotFree(s)
    /\ IF ~dirReadable
       THEN /\ sched' = TickRecord("panicked")
            /\ UNCHANGED <<steps, cache>>
       ELSE IF list = {}
       THEN /\ sched' = TickRecord("no_wallets")
            /\ UNCHANGED <<steps, cache>>
       ELSE \E wallet_name \in list :
               LET wallet == get_wallet(wallet_name) IN
               /\ cache' = wallet.cache
               /\ IF ~wallet.ret.some
                  THEN /\ sched' = TickRecord("load_failed")
                       /\ UNCHANGED steps
                  ELSE /\ sched' = TickRecord("spawned")
                       /\ steps' = [steps EXCEPT ![s] = [pc |-> "spawned", wallet |-> wallet_name]]
    /\ UNCHANGED <<sent, ledger, hist, dirReadable, files, tmps, tasks, sop, overlapped,
                   vaultVars, getVars, appVars>>

(* confirm_one up to its first await: the in-flight set is read; nothing   *)
(* to do when it is empty, else the snapshot is asked for                  *)
confirm_one_begin(s) ==
    LET in_progress == cache[steps[s].wallet].val.tx_in_progress IN
    /\ steps[s].pc = "spawned"
    /\ steps' = [steps EXCEPT ![s] =
                    IF in_progress = {} THEN DoneStep("Ok", FALSE)
                    ELSE [pc |-> "snapshot", wallet |-> steps[s].wallet,
                          in_progress |-> in_progress]]
    /\ UNCHANGED <<sent, sched, ledger, hist, dirReadable, storeVars, vaultVars, getVars, appVars>>

(* a change_indexes that keeps every output *)
change_indexes_all(tx, my_covhash, from) ==
    {i \in from..(Len(TxOutputs[tx]) - 1) : TRUE}

(* the own outputs of a transaction from index from on: change_indexes *)
change_indexes(tx, my_covhash, from) ==
    {i \in from..(Len(TxOutputs[tx]) - 1) : TxOutputs[tx][i + 1] = my_covhash}

Min(S) == CHOOSE x \in S : \A y \in S : x <= y

(* the state of a step that goes on to the own outputs from index from on *)
NextCoin(s, tx, snapshot, from, changed) ==
    LET todo == change_indexes(tx, Covenant_hash(cache[steps[s].wallet].val.my_covenant), from) IN
    IF todo = {} THEN DoneStep("Ok", changed)
    ELSE [pc |-> "get_coin", wallet |-> steps[s].wallet, in_progress |-> steps[s].in_progress,
          tx |-> tx, snapshot |-> snapshot, idx |-> Min(todo), changed |-> changed]

(* a snapshot error after which the drawn transaction is marked all the same *)
markers_after_snapshot_error_marked(tx) == sent \cup {hash_nosigs(tx)}

(* .context("cannot snapshot")?: the error is returned before a            *)
(* transaction is drawn, the marker set is not touched                     *)
markers_after_snapshot_error(tx) == sent

(* a decision that retransmits only on the 1-in-10 draw *)
retransmits_jitter_only(jitter, tx) == jitter

(* generate_range(0u8, 10) == 0 || sent.lock().insert(hash): retransmit on *)
(* the 1-in-10 draw, or when the hash was not in the set                   *)
retransmits(jitter, tx) == jitter \/ hash_nosigs(tx) \notin sent

(* client.snapshot() has answered: on an error the step ends; else a       *)
(* transaction is drawn, and either sent again or its own outputs looked up *)
confirm_one_snapshot(s, outcome, random_tx, jitter) ==
    /\ steps[s].pc = "snapshot"
    /\ random_tx \in steps[s].in_progress
    /\ IF outcome = "failed"
       THEN /\ steps' = [steps EXCEPT ![s] = DoneStep("Err", FALSE)]
            /\ sent' = markers_after_snapshot_error(random_tx)
            /\ UNCHANGED hist
       ELSE IF retransmits(jitter, random_tx)
       THEN /\ sent' = IF jitter THEN sent ELSE sent \cup {hash_nosigs(random_tx)}
            /\ hist' = [hist EXCEPT !.attempted = @ \cup {hash_nosigs(random_tx)}]
            /\ steps' = [steps EXCEPT ![s] =
                            [pc |-> "send_tx", wallet |-> steps[s].wallet,
                             in_progress |-> steps[s].in_progress, tx |-> random_tx]]
       ELSE /\ steps' = [steps EXCEPT ![s] = NextCoin(s, random_tx, [height |-> ledger.height, gone |-> ledger.gone],
                                     0, FALSE)]
            /\ hist' = [hist EXCEPT !.checked = @ \cup {hash_nosigs(random_tx)}]
            /\ UNCHANGED sent
    /\ UNCHANGED <<sched, ledger, dirReadable, storeVars, vaultVars, getVars, appVars>>

(* a step that returns the error of a failed retransmission *)
confirm_one_sent_escalated(s, outcome) ==
    /\ steps[s].pc = "send_tx"
    /\ steps' = [steps EXCEPT ![s] = DoneStep(IF outcome = "failed" THEN "Err" ELSE "Ok", FALSE)]
    /\ UNCHANGED <<sent, sched, ledger, hist, dirReadable, storeVars, vaultVars, getVars, appVars>>

(* send_tx has answered: an error is logged, the step ends well either way *)
confirm_one_sent(s, outcome) ==
    /\ steps[s].pc = "send_tx"
    /\ steps' = [steps EXCEPT ![s] = DoneStep(IF outcome = "failed" THEN "Logged" ELSE "Ok", FALSE)]
    /\ UNCHANGED <<sent, sched, ledger, hist, dirReadable, storeVars, vaultVars, getVars, appVars>>

(* a loop that goes on to the next own output after an unconfirmed one *)
confirm_one_coin_continue(s, outcome) ==
    LET me == steps[s]
        coin_id == output_coinid(me.tx, me.idx)
        cdh == get_coin(me.snapshot, coin_id)
        wdata == insert_coin(cache[me.wallet].val, coin_id, cdh.val) IN
    /\ me.pc = "get_coin"
    /\ hist' = [hist EXCEPT
                  !.queried = @ \cup {[wallet |-> me.wallet, coin |-> coin_id]},
                  !.inserted = IF outcome = "ok" /\ cdh.some
                               THEN @ \cup {[wallet |-> me.wallet, coin |-> coin_id,
                                             height |-> cdh.val.height]}
                               ELSE @]
    /\ IF outcome = "failed"
       THEN /\ steps' = [steps EXCEPT ![s] = DoneStep("Err", me.changed)]
            /\ UNCHANGED <<sent, cache, files>>
       ELSE IF cdh.some
       THEN /\ cache' = [cache EXCEPT ![me.wallet] = Some(wdata)]
            /\ files' = [files EXCEPT ![me.wallet] = FileOf(wdata, NChunks)]
            /\ sent' = sent \ {hash_nosigs(me.tx)}
            /\ steps' = [steps EXCEPT ![s] =
                            NextCoin(s, me.tx, me.snapshot, me.idx + 1,
                                     me.changed \/ wdata # cache[me.wallet].val)]
       ELSE /\ steps' = [steps EXCEPT ![s] =
                            NextCoin(s, me.tx, me.snapshot, me.idx + 1, me.changed)]
            /\ UNCHANGED <<sent, cache, files>>
    /\ UNCHANGED <<sched, ledger, dirReadable, tmps, tasks, sop, overlapped, vaultVars, getVars, appVars>>

(* get_coin has answered for the own output idx: on an error the step      *)
(* ends; a confirmed coin is inserted through wallet.write(), the marker   *)
(* removed, and the next own output looked up; an unconfirmed one ends the *)
(* loop                                                                    *)
confirm_one_coin(s, outcome) ==
    LET me == steps[s]
        coin_id == output_coinid(me.tx, me.idx)
        cdh == get_coin(me.snapshot, coin_id)
        wdata == insert_coin(cache[me.wallet].val, coin_id, cdh.val) IN
    /\ me.pc = "get_coin"
    /\ hist' = [hist EXCEPT
                  !.queried = @ \cup {[wallet |-> me.wallet, coin |-> coin_id]},
                  !.inserted = IF outcome = "ok" /\ cdh.some
                               THEN @ \cup {[wallet |-> me.wallet, coin |-> coin_id,
                                             height |-> cdh.val.height]}
                               ELSE @]
    /\ IF outcome = "failed"
       THEN /\ steps' = [steps EXCEPT ![s] = DoneStep("Err", me.changed)]
            /\ UNCHANGED <<sent, cache, files>>
       ELSE IF cdh.some
       THEN /\ cache' = [cache EXCEPT ![me.wallet] = Some(wdata)]
            /\ files' = [files EXCEPT ![me.wallet] = FileOf(wdata, NChunks)]
            /\ sent' = sent \ {hash_nosigs(me.tx)}
            /\ steps' = [steps EXCEPT ![s] =
                            NextCoin(s, me.tx, me.snapshot, me.idx + 1,
                                     me.changed \/ wdata # cache[me.wallet].val)]
       ELSE /\ steps' = [steps EXCEPT ![s] = DoneStep("Ok", me.changed)]
            /\ UNCHANGED <<sent, cache, files>>
    /\ UNCHANGED <<sched, ledger, dirReadable, tmps, tasks, sop, overlapped, vaultVars, getVars, appVars>>

(* no AppState::create_wallet call has returned yet, and the directory     *)
(* holds no file of others                                                 *)
AppInit == returned = {} /\ foreign = {}

ReconInit ==
    /\ sent = {}
    /\ steps = [s \in Steps |-> FreeStep]
    /\ sched = [running |-> TRUE, last |-> "none"]
    /\ ledger = [height |-> 0, stable |-> FALSE, gone |-> {}]
    /\ hist = [attempted |-> {}, checked |-> {}, queried |-> {}, inserted |-> {}]
    /\ dirReadable = TRUE

ReconNext ==
    \/ \E s \in Steps : confirm_task_tick(s)
    \/ \E s \in Steps : confirm_one_begin(s)
    \/ \E s \in Steps, o \in CallOutcomes, tx \in Txs, j \in BOOLEAN :
          confirm_one_snapshot(s, o, tx, j)
    \/ \E s \in Steps, o \in CallOutcomes : confirm_one_sent(s, o)
    \/ \E s \in Steps, o \in CallOutcomes : confirm_one_coin(s, o)
    \/ \E h \in Heights : ledger_confirm(h)
    \/ ledger_settle
    \/ chmod_dir

(* The daemon starts on the directory earlier runs have left: no file, a   *)
(* file that is no record, or a wallet with or without a transaction in    *)
(* flight; nothing is cached yet.                                          *)
WalletWith(covenant, txs) == [WalletData_new(covenant) EXCEPT !.tx_in_progress = txs]

(* the file of name in the k-th directory content tried *)
StartFile(name, k) ==
    IF name = GoodName
    THEN (IF k % 3 = 0 THEN NoFile
          ELSE IF k % 3 = 1 THEN FileOf(WalletWith("covA", {}), NChunks)
          ELSE FileOf(WalletWith("covA", Txs), NChunks))
    ELSE IF name = EmptyName
    THEN (IF k \div 3 = 0 THEN NoFile
          ELSE IF k \div 3 = 1 THEN JunkFile
          ELSE FileOf(WalletWith("covB", Txs), NChunks))
    ELSE NoFile

ReconStart ==
    /\ VaultInit /\ GetInit /\ ReconInit /\ AppInit
    /\ \E k \in 0..8 : files = [n \in Names |-> StartFile(n, k)]
    /\ tmps = [t \in Creators |-> NoFile]
    /\ cache = [n \in Names |-> None]
    /\ tasks = [t \in Creators |-> IdleTask]
    /\ overlapped = {}
    /\ sop = [seq |-> 0, op |-> "start", name |-> EmptyName, ret |-> "Ok", data |-> None,
              opened |-> FALSE, afterCreate |-> FALSE]

----------------------------------------------------------------------------
(* AppState::create_wallet(name, network) of state.rs among concurrent     *)
(* callers: the existence check on list_wallets, the key generation, the   *)
(* record write of MultiWallet::create_wallet, the key returned.           *)

(* Covenant::std_ed25519_pk_new(pk): the standard covenant of a public key *)
std_ed25519_pk_new(pk) == <<"std_ed25519_pk">> \o pk

(* the seed and the public half of a secret key *)
seed_of(sk) == SubSeq(sk, 1, SeedLen)
to_public_key(sk) == SubSeq(sk, SeedLen + 1, Len(sk))

(* AppState::list_wallets: the listed names whose record can be got; every *)
(* get_wallet it makes leaves the loaded record in the cache               *)
list_wallets == {v \in list : get_wallet(v).ret.some}
list_wallets_cache == [n \in Names |-> IF n \in list THEN get_wallet(n).cache[n] ELSE cache[n]]

(* if self.list_wallets().contains_key(name) { return None } *)
AppState_create_wallet_check(t, name) ==
    /\ tasks[t].pc = "idle"
    /\ dirReadable
    /\ cache' = list_wallets_cache
    /\ IF name \in list_wallets
       THEN /\ sop' = StoreCall("create_wallet", name, "None", None, FALSE)
            /\ UNCHANGED tasks
       ELSE /\ tasks' = [tasks EXCEPT ![t] = [pc |-> "checked", name |-> name]]
            /\ UNCHANGED sop
    /\ UNCHANGED <<files, tmps, overlapped, vaultVars, getVars, reconVars, appVars>>

(* ed25519_keygen, std_ed25519_pk_new, and multi.create_wallet up to the   *)
(* opening of its temp file; an invalid name ends the call with None       *)
AppState_create_wallet_keygen(t, sk) ==
    LET name == tasks[t].name
        covenant == std_ed25519_pk_new(to_public_key(sk)) IN
    /\ tasks[t].pc = "checked"
    /\ IF ~valid_wallet_name(name)
       THEN /\ tasks' = [tasks EXCEPT ![t] = IdleTask]
            /\ sop' = StoreCall("create_wallet", name, "None", None, FALSE)
            /\ UNCHANGED tmps
       ELSE /\ tasks' = [tasks EXCEPT ![t] = [pc |-> "writing", name |-> name,
                                              wdata |-> WalletData_new(covenant), sk |-> sk]]
            /\ tmps' = [tmps EXCEPT ![t] = TmpOf(0)]
            /\ UNCHANGED sop
    /\ overlapped' = IF valid_wallet_name(name) /\ UnderWay(t) # {}
                     THEN overlapped \cup {name} \cup UnderWay(t) ELSE overlapped
    /\ UNCHANGED <<files, cache, vaultVars, getVars, reconVars, appVars>>

(* the temp file is renamed onto <name>.json, multi.create_wallet returns  *)
(* Ok and the call returns Some(sk)                                        *)
AppState_create_wallet_return(t) ==
    /\ tasks[t].pc = "writing"
    /\ tmps[t].len = NChunks
    /\ files' = [files EXCEPT ![tasks[t].name] = FileOf(tasks[t].wdata, tmps[t].len)]
    /\ tmps' = [tmps EXCEPT ![t] = NoFile]
    /\ tasks' = [tasks EXCEPT ![t] = IdleTask]
    /\ sop' = StoreCall("create_wallet", tasks[t].name, "Some", Some(tasks[t].sk), TRUE)
    /\ returned' = returned \cup {[caller |-> t, name |-> tasks[t].name, sk |-> tasks[t].sk]}
    /\ UNCHANGED <<cache, overlapped, foreign, vaultVars, getVars, reconVars>>

AppCreateNext ==
    \/ \E t \in Creators, n \in Names : AppState_create_wallet_check(t, n)
    \/ \E t \in Creators, sk \in ed25519_keygen : AppState_create_wallet_keygen(t, sk)
    \/ \E t \in Creators : create_wallet_write(t)
    \/ \E t \in Creators : AppState_create_wallet_return(t)
    \/ \E t \in Creators : create_wallet_fail(t)

----------------------------------------------------------------------------
Init == VaultInit /\ StoreInit /\ GetInit /\ ReconInit /\ AppInit

VaultSpec == Init /\ [][VaultNext]_vars

StoreSpec == Init /\ [][StoreNext]_vars

GetSpec == Init /\ [][GetNext]_vars

CreateSpec == Init /\ [][CreateNext]_vars

ListSpec == Init /\ [][ListNext]_vars

ReconSpec == ReconStart /\ [][ReconNext]_vars

(* The engine with a wallet directory that stays readable, under the       *)
(* scheduling the runtime and the random draws give: the pacer fires again *)
(* and again, each loadable wallet is sampled again and again, a spawned   *)
(* task runs, every remote call is answered, and the 1-in-10 draw misses   *)
(* again and again.                                                        *)
ReconLiveNext ==
    \/ \E s \in Steps : confirm_task_tick(s)
    \/ \E s \in Steps : confirm_one_begin(s)
    \/ \E s \in Steps, o \in CallOutcomes, tx \in Txs, j \in BOOLEAN :
          confirm_one_snapshot(s, o, tx, j)
    \/ \E s \in Steps, o \in CallOutcomes : confirm_one_sent(s, o)
    \/ \E s \in Steps, o \in CallOutcomes : confirm_one_coin(s, o)
    \/ \E h \in Heights : ledger_confirm(h)
    \/ ledger_settle

ReconFairness ==
    /\ WF_vars(\E s \in Steps : confirm_task_tick(s))
    /\ \A w \in Names :
          SF_vars(\E s \in Steps : confirm_task_tick(s) /\ steps'[s].pc = "spawned"
                                                        /\ steps'[s].wallet = w)
    /\ \A s \in Steps :
          /\ WF_vars(confirm_one_begin(s))
          /\ WF_vars(\E o \in CallOutcomes, tx \in Txs, j \in BOOLEAN :
                        confirm_one_snapshot(s, o, tx, j))
          /\ SF_vars(\E tx \in Txs : confirm_one_snapshot(s, "ok", tx, FALSE))
          /\ WF_vars(\E o \in CallOutcomes : confirm_one_sent(s, o))
          /\ WF_vars(\E o \in CallOutcomes : confirm_one_coin(s, o))

ReconFairSpec == ReconStart /\ [][ReconLiveNext]_vars /\ ReconFairness

(* The engine while outputs of the included transaction get spent: a       *)
(* snapshot then has some outputs of one transaction and not others.       *)
ScanNext ==
    \/ \E s \in Steps : confirm_task_tick(s)
    \/ \E s \in Steps : confirm_one_begin(s)
    \/ \E s \in Steps, o \in CallOutcomes, tx \in Txs, j \in BOOLEAN :
          confirm_one_snapshot(s, o, tx, j)
    \/ \E s \in Steps, o \in CallOutcomes : confirm_one_sent(s, o)
    \/ \E s \in Steps, o \in CallOutcomes : confirm_one_coin(s, o)
    \/ \E h \in Heights : ledger_confirm(h)
    \/ \E i \in OutputIndexes : ledger_spend(i)

ScanSpec == ReconStart /\ [][ScanNext]_vars

----------------------------------------------------------------------------
(* The request layer on top of vault and store: wallets are created with   *)
(* their secret, locked, unlocked, and asked to prepare a transaction.     *)

(* AppState::create_wallet(name, sk, password) for a name that has no      *)
(* wallet yet: the record file and the SecretRecord are written; the new   *)
(* wallet is Locked                                                        *)
AppState_create_wallet(name, sk, pwd) ==
    /\ valid_wallet_name(name)
    /\ secrets[name] = NoSecret /\ files[name] = NoFile
    /\ files' = [files EXCEPT ![name] = FileOf(WalletData_new(to_public(SubSeq(sk, 1, SeedLen))),
                                                NChunks)]
    /\ secrets' = SecretStore_store(name, sk, pwd)
    /\ vop' = VaultCall("create", name, pwd, "Ok", None)
    /\ UNCHANGED <<unlocked_signers, unlockedSince, openedWith, tmps, cache, tasks, sop,
                   overlapped, getVars, reconVars, appVars>>

(* prepare_tx without "signing_key", up to the calls of the remote node:   *)
(* 403 "wallet is locked" when get_signer gives None, then 400 "no wallet" *)
(* when the wallet cannot be got; answer is what the node does then        *)
prepare_tx_response(name, answer) ==
    IF ~get_signer(name).some THEN [status |-> 403, message |-> "wallet is locked"]
    ELSE IF ~get_wallet(name).ret.some THEN [status |-> 400, message |-> "no wallet"]
    ELSE IF answer # "accepted" THEN [status |-> 502, message |-> "snapshot"]
    ELSE [status |-> 200, message |-> "prepared"]

prepare_tx(name, answer) ==
    LET response == prepare_tx_response(name, answer) IN
    /\ vop' = VaultCall("prepare_tx", name, None, response.status, Some(response.message))
    /\ cache' = IF get_signer(name).some THEN get_wallet(name).cache ELSE cache
    /\ UNCHANGED <<secrets, unlocked_signers, unlockedSince, openedWith, files, tmps, tasks,
                   sop, overlapped, getVars, reconVars, appVars>>

SignNext ==
    \/ \E n \in Names, sk \in ed25519_keygen, p \in PwdOpts : AppState_create_wallet(n, sk, p)
    \/ \E n \in Names, p \in PwdOpts : unlock_wallet(n, p)
    \/ \E n \in Names : lock_wallet(n)
    \/ \E n \in Names, a \in {"accepted", "snapshot_failed"} : prepare_tx(n, a)

SignSpec == Init /\ [][SignNext]_vars

AppCreateSpec == Init /\ [][AppCreateNext]_vars

----------------------------------------------------------------------------
(* Vault claims.  vop is the call that produced the current state, so a    *)
(* step with vop'.op = "unlock" is an unlock call with arguments           *)
(* vop'.name, vop'.pwd and outcome vop'.ret.                               *)

(* the key a SecretRecord holds *)
RecordKey(n) ==
    IF secrets[n].kind = "Plaintext" THEN secrets[n].sk ELSE secrets[n].enc.sealed

(* the record is in the clear, or sealed under exactly the password given *)
Authorized(n, p) ==
    \/ secrets[n].kind = "Plaintext"
    \/ secrets[n].kind = "PasswordEncrypted" /\ p.some /\ p.val = secrets[n].enc.under

(* a password is given and it is not the one the record is sealed under *)
WrongPassword(n, p) ==
    secrets[n].kind = "PasswordEncrypted" /\ p.some /\ p.val # secrets[n].enc.under

(* the step is the call unlock(n, p) *)
UnlockCall(n, p) == vop'.op = "unlock" /\ vop'.name = n /\ vop'.pwd = p

(* C2: in every reachable state signer(name) returns a capability only if  *)
(* name has a SecretRecord and some unlock(name, .) succeeded since the    *)
(* last lock(name) or process start; an Unknown wallet is never Unlocked.  *)
C2_SignerOnlyAfterUnlock ==
    /\ \A n \in Names :
          get_signer(n).some => secrets[n] # NoSecret /\ unlockedSince[n]
    /\ vop.op = "signer" => vop.out = get_signer(vop.name)

C2_Witness ==
    /\ vop.op = "signer" /\ vop.out.some
    /\ \E n \in Names : secrets[n] = NoSecret /\ ~get_signer(n).some

(* C3: unlock(name, pwd) succeeds exactly when name has a Plaintext record *)
(* (any or no password) or a PasswordEncrypted one that pwd decrypts;      *)
(* after a success signer(name) is the capability for the record's key,    *)
(* whatever it was before.                                                 *)
C3_UnlockExactlyWhenAuthorized ==
    [][\A n \in Names, p \in PwdOpts : UnlockCall(n, p) =>
          /\ (vop'.ret = "Ok") <=> Authorized(n, p)
          /\ vop'.ret = "Ok" => get_signer(n)' = Some(RecordKey(n))]_vars

C3_Witness ==
    /\ vop.op = "unlock" /\ vop.ret = "Ok"
    /\ secrets[vop.name].kind = "PasswordEncrypted"
    /\ get_signer(vop.name) = Some(RecordKey(vop.name))

(* C4 as claimed: after unlock with an incorrect password on a             *)
(* PasswordEncrypted record, whatever the state before, the wallet is      *)
(* Locked and signer(name) returns None.                                   *)
C4_WrongPasswordLocks ==
    (vop.op = "unlock" /\ WrongPassword(vop.name, vop.pwd)) => ~get_signer(vop.name).some

(* C4 amended: unlock with an incorrect password on a PasswordEncrypted    *)
(* record fails and leaves the wallet in the state it was in: a Locked     *)
(* wallet stays Locked and signer(name) returns None, an Unlocked wallet   *)
(* stays Unlocked with the signer it had.                                  *)
C4_WrongPasswordKeepsState ==
    [][\A n \in Names, p \in PwdOpts : (UnlockCall(n, p) /\ WrongPassword(n, p)) =>
          /\ vop'.ret = "Forbidden"
          /\ get_signer(n)' = get_signer(n)
          /\ ~get_signer(n).some => ~get_signer(n)'.some]_vars

C4_Witness ==
    /\ vop.op = "unlock" /\ WrongPassword(vop.name, vop.pwd)
    /\ vop.ret = "Forbidden" /\ ~get_signer(vop.name).some

(* C5: a failed unlock (wrong password, missing password on a              *)
(* PasswordEncrypted record, no record) changes nothing: the signer map    *)
(* and the persisted SecretRecords are the same before and after.          *)
C5_FailedUnlockNoChange ==
    [][\A n \in Names, p \in PwdOpts : (UnlockCall(n, p) /\ vop'.ret # "Ok") =>
          /\ unlocked_signers' = unlocked_signers
          /\ secrets' = secrets
          /\ \/ secrets[n] = NoSecret
             \/ WrongPassword(n, p)
             \/ secrets[n].kind = "PasswordEncrypted" /\ ~p.some]_vars

C5_Witness ==
    /\ vop.op = "unlock" /\ vop.ret = "Forbidden"
    /\ secrets[vop.name].kind = "PasswordEncrypted" /\ ~vop.pwd.some
    /\ get_signer(vop.name).some

(* C6: lock(name) never fails, leaves signer(name) = None, changes nothing *)
(* when the wallet was already locked or unknown, and never touches the    *)
(* SecretRecords; an unlock with the password of an earlier successful     *)
(* unlock succeeds again.                                                  *)
C6_LockIdempotent ==
    [][\A n \in Names :
          /\ (vop'.op = "lock" /\ vop'.name = n) =>
                /\ vop'.ret = "Ok"
                /\ ~get_signer(n)'.some
                /\ secrets' = secrets
                /\ \A m \in Names \ {n} : get_signer(m)' = get_signer(m)
                /\ ~get_signer(n).some => unlocked_signers' = unlocked_signers
          /\ \A p \in PwdOpts : (UnlockCall(n, p) /\ openedWith[n] = Some(p)) =>
                vop'.ret = "Ok" /\ get_signer(n)'.some]_vars

C6_Witness ==
    /\ vop.op = "lock" /\ openedWith[vop.name].some /\ ~unlockedSince[vop.name]
    /\ ~get_signer(vop.name).some /\ secrets[vop.name] # NoSecret

C21_WrongPasswordDistinctFromNoRecord ==
    \A n \in Names, m \in Names, p \in PwdOpts :
        (WrongPassword(n, p) /\ secrets[m] = NoSecret) =>
            \/ unlock_signer(n, p).ret # unlock_signer(m, p).ret
            \/ unlock_wallet_response(n, p) # unlock_wallet_response(m, p)

----------------------------------------------------------------------------
(* Store claims.  sop is the last completed store call; a step that        *)
(* changes sop is the completion of the call sop' describes.               *)

(* [A-Za-z0-9_] *)
NameChars == AsciiAlnum \cup {"_"}

(* the name has a character outside [A-Za-z0-9_] *)
HasBadChar(name) == \E i \in 1..Len(name) : name[i] \notin NameChars

(* the name matches [A-Za-z0-9_]+ *)
MatchesNamePattern(name) == Len(name) >= 1 /\ ~HasBadChar(name)

(* the step completes a store call op on name n *)
Completes(op, n) == sop' # sop /\ sop'.op = op /\ sop'.name = n

(* C1: the record write of create(name) is all-or-nothing.  In every       *)
(* reachable state, crashes between the temp write and the rename          *)
(* included, <name>.json is absent or a complete record; each step leaves  *)
(* it as it was or replaces it by the complete new record of a create (or  *)
(* by a complete record persisted through a handle); a crash changes no    *)
(* record file, whatever temp file it leaves behind.                       *)
C1_AtomicCreate ==
    /\ [](\A n \in Names : files[n] = NoFile \/ Complete(files[n]))
    /\ [][/\ \A n \in Names :
                \/ files'[n] = files[n]
                \/ /\ Completes("create", n)
                   /\ \E t \in Tasks : /\ tasks[t].pc = "writing" /\ tasks[t].name = n
                                       /\ files'[n] = FileOf(tasks[t].wdata, NChunks)
                \/ /\ Completes("send_tx", n)
                   /\ cache'[n].some /\ files'[n] = FileOf(cache'[n].val, NChunks)
          /\ Completes("start", EmptyName) =>
                /\ files' = files /\ tmps' = tmps
                /\ \A n \in Names : files[n] # NoFile => (AcidJson_open(n))' = Some(files[n].data)
         ]_vars

(* a crash has left a partly written temp file behind, beside an older complete record *)
C1_Witness ==
    /\ sop.op = "start"
    /\ \E t \in Tasks :
          /\ tasks[t].pc = "idle" /\ tmps[t].kind = "Tmp" /\ tmps[t].len < NChunks
          /\ AcidJson_open(GoodName).some /\ files[EmptyName] = NoFile

(* C8: create with a name that has a character outside [A-Za-z0-9_] always *)
(* fails with InvalidName and creates no file: the directory (record files *)
(* and temp files) is unchanged, and no write for such a name is ever      *)
(* under way.                                                              *)
C8_InvalidNameCreatesNothing ==
    /\ [](\A n \in Names : HasBadChar(n) =>
             /\ files[n] = NoFile
             /\ \A t \in Tasks : tasks[t].pc # "idle" => tasks[t].name # n)
    /\ [][\A n \in Names : (Completes("create", n) /\ HasBadChar(n)) =>
             sop'.ret = "InvalidName" /\ files' = files /\ tmps' = tmps]_vars

C8_Witness ==
    /\ sop.op = "create" /\ sop.ret = "InvalidName" /\ HasBadChar(sop.name)
    /\ \E n \in Names : files[n] # NoFile

(* C9: get(name) for a name that does not match [A-Za-z0-9_]+ fails with   *)
(* InvalidName before any filesystem access and adds no cache entry.       *)
C9_GetRejectsInvalidName ==
    (sop.op = "get" /\ ~MatchesNamePattern(sop.name)) =>
        sop.ret = "InvalidName" /\ ~sop.opened /\ ~cache[sop.name].some

(* C10: for every valid name and every prior state of the store, get(name) *)
(* right after a successful create(name) returns a record whose unspent    *)
(* set and in-flight set are both empty.                                   *)
C10_GetAfterCreateIsEmpty ==
    (sop.op = "get" /\ sop.afterCreate /\ MatchesNamePattern(sop.name)) =>
        /\ sop.ret = "Ok"
        /\ sop.data.val.unspent_coins = {}
        /\ sop.data.val.tx_in_progress = {}

(* the in-flight set of the record a caller of get_wallet(n) would see *)
InFlight(n) ==
    IF cache[n].some THEN cache[n].val.tx_in_progress
    ELSE IF Complete(files[n]) THEN files[n].data.tx_in_progress
    ELSE {}

(* C26: send_tx puts a transaction into the in-flight set of the wallet    *)
(* only after the node has accepted its submission: a call that ends in an *)
(* error (no wallet, no snapshot, submission refused) leaves the record    *)
(* file and the record in memory as they were, and a transaction joins an  *)
(* in-flight set only in a send_tx call that ends with Ok.                 *)
C26_SendTxCommitsAfterAccept ==
    [][\A n \in Names :
          /\ (Completes("send_tx", n) /\ sop'.ret # "Ok") =>
                /\ sop'.ret \in {"BadRequest", "UpstreamError"}
                /\ files' = files
                /\ InFlight(n)' = InFlight(n)
                /\ cache[n].some => cache'[n] = cache[n]
                /\ (~cache[n].some /\ cache'[n].some) => cache'[n] = Some(files[n].data)
                /\ (sop'.ret = "UpstreamError") <=> get_wallet(n).ret.some
          /\ (Completes("send_tx", n) /\ sop'.ret = "Ok") =>
                /\ get_wallet(n).ret.some
                /\ InFlight(n)' # {}
                /\ files'[n] = FileOf(cache'[n].val, NChunks)
          /\ (InFlight(n)' \ InFlight(n)) # {} =>
                Completes("send_tx", n) /\ sop'.ret = "Ok"]_vars

(* the node has refused a transaction for a wallet that exists: the call   *)
(* has ended in an error and the wallet has nothing in flight              *)
C26_Witness ==
    /\ sop.op = "send_tx" /\ sop.ret = "UpstreamError"
    /\ cache[sop.name].some /\ cache[sop.name].val.tx_in_progress = {}
    /\ files[sop.name] = FileOf(cache[sop.name].val, NChunks)

----------------------------------------------------------------------------
(* Claims about concurrent lookups (GetSpec). *)

(* both callers hold a handle for the same name *)
HoldSameName(t, u) ==
    /\ getters[t].pc = "holding" /\ getters[u].pc = "holding"
    /\ getters[t].name = getters[u].name

(* C11: for any interleaving of get(name) calls on an existing wallet, the *)
(* record file is opened at most once and every caller gets a handle to    *)
(* the same in-memory record: a change made through one handle is seen by  *)
(* a read through any other handle of the name.                            *)
C11_SharedHandle ==
    /\ [](\A n \in Names : opens[n] <= 1)
    /\ [](\A t \in Getters, u \in Getters :
             HoldSameName(t, u) =>
                getters[t].handle = getters[u].handle /\ handle_read(t) = handle_read(u))
    /\ [][\A t \in Getters, u \in Getters :
             (getters' = getters /\ HoldSameName(t, u) /\ handle_read(t)' # handle_read(t)) =>
                handle_read(u)' = handle_read(t)']_vars

(* two callers hold the one handle of a wallet, and a write through it has happened *)
C11_Witness ==
    /\ HoldSameName(1, 2)
    /\ opens[getters[1].name] = 1
    /\ handle_read(2).tx_in_progress # {}
    /\ handle_read(2) # WalletData_new(handle_read(2).my_covenant)

----------------------------------------------------------------------------
(* Claims about concurrent creates (CreateSpec).  The directory is empty   *)
(* at the start and only create_wallet makes record files, so the names    *)
(* with a file are the names whose create has completed with Ok.           *)

Created == {n \in Names : files[n] # NoFile}

(* C12: after concurrent creates of distinct valid names have completed,   *)
(* in any interleaving of their temp writes and renames, list() returns    *)
(* exactly the created names and get on each loads a complete record       *)
(* without error; a create never changes the file or the temp file of      *)
(* another one.                                                            *)
C12_ConcurrentCreates ==
    /\ [](list = Created)
    /\ [](\A n \in Created :
             /\ valid_wallet_name(n)
             /\ Complete(files[n]) /\ AcidJson_open(n) = Some(files[n].data)
             /\ get_wallet(n).ret.some)
    /\ [][\A n \in Names :
             /\ files'[n] # files[n] =>
                   /\ Completes("create", n) /\ sop'.ret = "Ok"
                   /\ \E c \in Covenants : files'[n] = FileOf(WalletData_new(c), NChunks)
                   /\ \A m \in Names \ {n} : files'[m] = files[m]
                   /\ \A t \in Creators :
                         (tasks[t].pc = "writing" /\ tasks[t].name # n) =>
                            tmps'[t] = tmps[t] /\ tasks'[t] = tasks[t]
             /\ (Completes("create", n) /\ sop'.ret = "Ok") => n \in Created'
             /\ (Completes("get", n) /\ n \in Created) =>
                   /\ sop'.ret = "Ok" /\ sop'.data.some
                   /\ ~cache[n].some => sop'.opened /\ sop'.data = Some(files[n].data)]_vars

(* both creates ran at the same time, both are done, and list has named both *)
C12_Witness ==
    /\ overlapped = {EmptyName, GoodName}
    /\ \A t \in Creators : tasks[t].pc = "idle"
    /\ Created = {EmptyName, GoodName}
    /\ sop.op = "list" /\ sop.data = Some({EmptyName, GoodName})
    /\ files[EmptyName].data # files[GoodName].data

----------------------------------------------------------------------------
(* Claims about list (ListSpec). *)

(* the directory entry is the record file of a name matching [A-Za-z0-9_]+ *)
IsRecordFile(entry) == \E n \in Names : MatchesNamePattern(n) /\ entry = n \o Ext

(* C27: every name list() returns matches [A-Za-z0-9_]+ and is the name of *)
(* a record file <name>.json present in the directory (get on it does not  *)
(* fail with NotFound); each such wallet is returned, and returned once;   *)
(* every other directory entry, the secrets file included, is skipped.     *)
C27_ListNamesRecords ==
    /\ \A n \in list :
          /\ MatchesNamePattern(n)
          /\ n \in Names /\ files[n] # NoFile
          /\ list_count(n) = 1
    /\ \A n \in Names : (MatchesNamePattern(n) /\ files[n] # NoFile) => n \in list
    /\ \A entry \in read_dir :
          ~IsRecordFile(entry) => ~(ends_with(entry, Ext) /\ replace(entry, Ext) \in list)

----------------------------------------------------------------------------
(* Claims about the reconciliation engine (ReconSpec).  A step of task s   *)
(* that leaves pc "snapshot" is the answer of client.snapshot(): to "done" *)
(* with Err when it failed, to "send_tx" when the drawn transaction is     *)
(* retransmitted, to "get_coin" (or "done" with Ok) on the check path.     *)

SnapshotAnswered(s) == steps[s].pc = "snapshot" /\ steps'[s].pc # "snapshot"
SnapshotFailed(s) == SnapshotAnswered(s) /\ steps'[s].pc = "done" /\ steps'[s].ret = "Err"

(* C13: a step that has drawn an in-flight transaction whose hash is not   *)
(* in the marker set, and has got a snapshot, retransmits it and does not  *)
(* take the check path; so no transaction is checked, and no coin of it    *)
(* queried, before a retransmission of it has been attempted.              *)
C13_FirstPassRetransmits ==
    /\ [][\A s \in Steps :
             /\ (SnapshotAnswered(s) /\ ~SnapshotFailed(s)
                    /\ \A tx \in steps[s].in_progress : hash_nosigs(tx) \notin sent) =>
                   /\ steps'[s].pc = "send_tx"
                   /\ hash_nosigs(steps'[s].tx) \in hist'.attempted
                   /\ hist'.checked = hist.checked
             /\ (SnapshotAnswered(s) /\ steps'[s].pc = "get_coin") =>
                   hash_nosigs(steps'[s].tx) \in sent
             /\ (hist'.checked \ hist.checked) \subseteq sent]_vars
    /\ [](hist.checked \subseteq hist.attempted)
    /\ [](\A q \in hist.queried : q.coin.txhash \in hist.attempted)

(* a transaction has been retransmitted on an earlier pass and is now being checked *)
C13_Witness ==
    \E s \in Steps :
        /\ steps[s].pc = "get_coin"
        /\ hash_nosigs(steps[s].tx) \in hist.attempted
        /\ hash_nosigs(steps[s].tx) \in hist.checked

(* the record of a wallet: the cached one when loaded, else the one on file *)
HasRecord(w) == cache[w].some \/ Complete(files[w])
RecordOf(w) == IF cache[w].some THEN cache[w].val ELSE files[w].data

(* the outputs of tx that pay the address of wallet w *)
OwnCoins(w, tx) ==
    {output_coinid(tx, i) : i \in change_indexes(tx, Covenant_hash(RecordOf(w).my_covenant), 0)}

(* tx is in flight in w, or was: only reconciliation of tx puts its coins into the unspent set *)
WasInFlight(w, tx) ==
    \/ tx \in RecordOf(w).tx_in_progress
    \/ \E c \in RecordOf(w).unspent_coins : c.coin.txhash = hash_nosigs(tx)

(* every own output of tx is unspent at the height reported, and tx is no longer in flight *)
Reconciled(w, tx) ==
    /\ HasRecord(w)
    /\ \A coin_id \in OwnCoins(w, tx) :
          [coin |-> coin_id, height |-> ledger.height] \in RecordOf(w).unspent_coins
    /\ tx \notin RecordOf(w).tx_in_progress

(* C14: given a wallet with an in-flight transaction and a ledger that     *)
(* from some point on reports all of its outputs confirmed and never       *)
(* fails, under fair ticks and fair random draws the reconciliation steps  *)
(* eventually put every own-address output of the transaction into the     *)
(* unspent set at the reported height, and the transaction eventually      *)
(* needs no more reconciliation.                                           *)
C14_EventuallyReconciled ==
    \A w \in Names, tx \in Txs :
        (ledger.stable /\ HasRecord(w) /\ WasInFlight(w, tx)) ~> Reconciled(w, tx)

(* C15: if any remote call inside a reconciliation step fails (snapshot,   *)
(* submission, or the confirmation query for any own output, one that      *)
(* follows an already confirmed output included), the wallet record at the *)
(* end of the step equals the record at its start: a step that has ended   *)
(* on a failed call has not changed the record.                            *)
C15_FailedStepNoChange ==
    \A s \in Steps :
        (steps[s].pc = "done" /\ steps[s].ret \in {"Err", "Logged"}) => ~steps[s].changed

(* C16: if the snapshot cannot be got, the step ends at once, the wallet   *)
(* record and the marker set are unchanged and the transaction is still in *)
(* flight, so that a later tick tries again.                               *)
C16_SnapshotFailureNoChange ==
    [][\A s \in Steps : SnapshotFailed(s) =>
          /\ cache' = cache /\ files' = files
          /\ sent' = sent
          /\ \A tx \in Txs : tx \in cache[steps[s].wallet].val.tx_in_progress =>
                                tx \in cache'[steps[s].wallet].val.tx_in_progress
          /\ SlotFree(s)'
          /\ sched' = sched]_vars

(* a step has ended on a snapshot error (no coin was ever queried), the    *)
(* marker of an earlier retransmission is still there and the transaction  *)
(* still in flight                                                         *)
C16_Witness ==
    \E s \in Steps, w \in Names :
        /\ steps[s] = DoneStep("Err", FALSE)
        /\ hist.queried = {}
        /\ sent # {}
        /\ cache[w].some /\ cache[w].val.tx_in_progress # {}
        /\ sched.running

(* C17: once started the scheduler never stops: after every tick outcome   *)
(* (no wallets, a wallet that does not load, an unreadable directory, a    *)
(* network without client) it is still running.                            *)
C17_SchedulerNeverStops == sched.running

(* a wallet can be sampled and loaded *)
CanSpawn ==
    /\ sched.running /\ dirReadable
    /\ \E w \in list : get_wallet(w).ret.some
    /\ \E s \in Steps : SlotFree(s)

(* the task is waiting for the answer of a remote call *)
Awaiting(s) == steps[s].pc \in {"snapshot", "send_tx", "get_coin"}

OwnOutput(w, coin_id) ==
    \E tx \in Txs :
        /\ coin_id.txhash = hash_nosigs(tx)
        /\ coin_id.index + 1 \in 1..Len(TxOutputs[tx])
        /\ TxOutputs[tx][coin_id.index + 1] = Covenant_hash(RecordOf(w).my_covenant)

(* C19: every coin the engine has inserted into a wallet's unspent set is  *)
(* an output of a transaction taken from that wallet's in-flight set and   *)
(* pays the wallet's own address; outputs that pay another address are     *)
(* neither queried nor inserted.                                           *)
C19_OnlyOwnCoins ==
    /\ [](\A q \in hist.queried : OwnOutput(q.wallet, q.coin))
    /\ [](\A i \in hist.inserted : OwnOutput(i.wallet, i.coin))
    /\ [](\A w \in Names : cache[w].some =>
             \A c \in cache[w].val.unspent_coins :
                 /\ OwnOutput(w, c.coin)
                 /\ [wallet |-> w, coin |-> c.coin, height |-> c.height] \in hist.inserted)
    /\ [](\A s \in Steps : steps[s].pc \in {"send_tx", "get_coin"} =>
             steps[s].tx \in steps[s].in_progress)
    /\ [][\A s \in Steps : (steps[s].pc = "spawned" /\ steps'[s].pc = "snapshot") =>
             steps'[s].in_progress = cache[steps[s].wallet].val.tx_in_progress]_vars

(* both wallets hold the transaction; each has got its own outputs and no other *)
C19_Witness ==
    /\ cache[GoodName].some /\ cache[EmptyName].some
    /\ {c.coin.index : c \in cache[GoodName].val.unspent_coins} = {0, 2}
    /\ {c.coin.index : c \in cache[EmptyName].val.unspent_coins} = {1}

(* the check path has recorded a confirmed own output of tx (and removed   *)
(* the marker of tx in the same step)                                      *)
Settled(tx) == \E i \in hist.inserted : i.coin.txhash = hash_nosigs(tx)

(* the step is the decision of task s to retransmit the transaction drawn *)
Retransmits(s) == steps[s].pc = "snapshot" /\ steps'[s].pc = "send_tx"

(* C23: once the check path has recorded a confirmed own-address output of *)
(* a transaction and removed its retransmission marker, no reconciliation  *)
(* step retransmits that transaction any more.                             *)
C23_NoRetransmitAfterSettled ==
    [][\A s \in Steps : Retransmits(s) => ~Settled(steps'[s].tx)]_vars

(* the coin task s is asking the node about *)
CoinAsked(s) == output_coinid(steps[s].tx, steps[s].idx)

(* the own output indexes of the transaction task s is checking *)
OwnIndexes(s) ==
    change_indexes(steps[s].tx, Covenant_hash(cache[steps[s].wallet].val.my_covenant), 0)

(* the step is the node's answer to task s that its coin is not confirmed *)
ReportedUnconfirmed(s) ==
    /\ steps[s].pc = "get_coin" /\ steps'[s] # steps[s]
    /\ ~get_coin(steps[s].snapshot, CoinAsked(s)).some
    /\ ~(steps'[s].pc = "done" /\ steps'[s].ret = "Err")

(* C24 (ScanSpec): on the check path the own-address outputs of the        *)
(* transaction are asked for in increasing index, none left out; once the  *)
(* node reports one unconfirmed the pass is over: no later output is       *)
(* queried or recorded by it, and the outputs recorded before stay         *)
(* recorded.                                                               *)
C24_StopAtFirstUnconfirmed ==
    /\ [](\A s \in Steps : steps[s].pc = "get_coin" =>
             /\ steps[s].idx \in OwnIndexes(s)
             /\ \A i \in OwnIndexes(s) : i < steps[s].idx =>
                    [wallet |-> steps[s].wallet, coin |-> output_coinid(steps[s].tx, i)]
                        \in hist.queried)
    /\ [][\A s \in Steps :
             /\ (steps[s].pc = "snapshot" /\ steps'[s].pc = "get_coin") =>
                   \A i \in OwnIndexes(s)' : steps'[s].idx <= i
             /\ (steps[s].pc = "get_coin" /\ steps'[s].pc = "get_coin"
                    /\ steps'[s] # steps[s]) =>
                   /\ steps'[s].idx > steps[s].idx
                   /\ \A i \in OwnIndexes(s) : ~(steps[s].idx < i /\ i < steps'[s].idx)
             /\ ReportedUnconfirmed(s) =>
                   /\ steps'[s].pc = "done" /\ steps'[s].ret = "Ok"
                   /\ hist'.queried = hist.queried \cup {[wallet |-> steps[s].wallet,
                                                          coin |-> CoinAsked(s)]}
                   /\ hist'.inserted = hist.inserted
                   /\ cache' = cache /\ files' = files]_vars

(* a pass over w_1 has recorded output 0, was told output 2 is not         *)
(* confirmed and has ended: output 0 is in the unspent set, output 2 not   *)
C24_Witness ==
    /\ \E s \in Steps : steps[s] = DoneStep("Ok", TRUE)
    /\ hist.queried = {[wallet |-> GoodName, coin |-> output_coinid("tx1", i)] : i \in {0, 2}}
    /\ {i.coin.index : i \in hist.inserted} = {0}
    /\ cache[GoodName].some
    /\ {c.coin.index : c \in cache[GoodName].val.unspent_coins} = {0}
    /\ 2 \in ledger.gone

(* the step is the node's answer to the retransmission of task s *)
SubmissionAnswered(s) == steps[s].pc = "send_tx" /\ steps'[s] # steps[s]

(* C25 (ReconSpec): a step that takes the retransmit path ends with Ok     *)
(* whether the submission succeeds or fails (a failure is only logged),    *)
(* and neither the decision to retransmit nor the answer changes the       *)
(* wallet record, in memory or on file.                                    *)
C25_RetransmitBestEffort ==
    /\ [][\A s \in Steps :
             /\ Retransmits(s) => cache' = cache /\ files' = files
             /\ SubmissionAnswered(s) =>
                   /\ steps'[s].pc = "done" /\ steps'[s].ret \in {"Ok", "Logged"}
                   /\ ~steps'[s].changed
                   /\ cache' = cache /\ files' = files]_vars
    /\ [](\A s \in Steps : (steps[s].pc = "send_tx" /\ ~ledger.stable) =>
             /\ ENABLED (confirm_one_sent(s, "failed") /\ steps'[s] = DoneStep("Logged", FALSE))
             /\ ENABLED (confirm_one_sent(s, "ok") /\ steps'[s] = DoneStep("Ok", FALSE)))

(* a retransmission has failed and was logged: the step has ended without  *)
(* error and the wallet is as it was found, the transaction in flight      *)
C25_Witness ==
    \E s \in Steps :
        /\ steps[s] = DoneStep("Logged", FALSE)
        /\ hist.attempted # {} /\ hist.inserted = {}
        /\ cache[GoodName] = Some(WalletWith("covA", Txs))
        /\ files[GoodName] = FileOf(WalletWith("covA", Txs), NChunks)

----------------------------------------------------------------------------
(* Claims about the request layer (SignSpec). *)

(* the wallet exists: it has a record file and a SecretRecord *)
WalletExists(n) == secrets[n] # NoSecret /\ Complete(files[n])

(* C20: a sign request (prepare-tx without a signing key) for an existing  *)
(* but locked wallet fails with an outcome that differs from the outcome   *)
(* of the same request for a wallet name that does not exist.              *)
C20_LockedDistinctFromMissing ==
    \A n \in Names, m \in Names, a \in {"accepted", "snapshot_failed"} :
        (WalletExists(n) /\ ~get_signer(n).some /\ secrets[m] = NoSecret /\ files[m] = NoFile) =>
            /\ prepare_tx_response(n, a).status # 200
            /\ prepare_tx_response(n, a) # prepare_tx_response(m, a)

----------------------------------------------------------------------------
(* Claims about AppState::create_wallet (AppCreateSpec).  The directory is *)
(* empty at the start and only these calls write record files.             *)

(* C22: for any interleaving of AppState::create_wallet calls with one     *)
(* name, at most one of them returns a secret key, and the covenant of the *)
(* persisted record is the one derived from the key that was returned: no  *)
(* caller holds a key for a record that another call has overwritten.      *)
C22_OneKeyPerName ==
    /\ \A r \in returned, q \in returned : r.name = q.name => r = q
    /\ \A r \in returned :
          /\ Complete(files[r.name])
          /\ files[r.name].data.my_covenant = std_ed25519_pk_new(to_public(seed_of(r.sk)))

====
